---- MODULE Spec2Model ----
(***************************************************************************)
(* priceTracker: the snapshot/alert store (src/src/storage.py), the drop   *)
(* detector (src/src/engine.py) and the scan loop (src/src/cli.py).        *)
(*                                                                         *)
(* Conventions of the model                                                *)
(*   - A price is a whole number of dollars (a float holding an integer is *)
(*     exact, and so are its differences).                                 *)
(*   - min_pct is given in hundredths: 8 stands for 0.08.  A ratio is kept *)
(*     as a fraction [num, den] with den > 0 and compared by cross         *)
(*     multiplication.                                                     *)
(*   - An Optional value is a sequence: <<>> is None, <<v>> is v.          *)
(*   - The clock is read in hours.  `now` is UTC; datetime.now() of Python *)
(*     is the naive local time now + tz; datetime('now') of SQLite is UTC. *)
(*     Two stamps taken in the same hour keep the order of their creation  *)
(*     (the sub-hour part of isoformat()), which is also the order of the  *)
(*     row ids.                                                            *)
(*   - A table is the sequence of its rows in row id order.                *)
(***************************************************************************)
EXTENDS Integers, Sequences, FiniteSets, TLC

VARIABLES
    snapshots,  \* table snapshots of storage.py
    alerts,     \* table alerts of storage.py
    now,        \* the UTC clock, in hours
    tz,         \* offset of the machine's local time from UTC, in hours
    ret,        \* the last completed process_snapshot call: inputs and result
    scan,       \* cmd_scan: the position of the loop and what the run has seen
    proc        \* concurrent evaluations: program counter and locals of each

vars == <<snapshots, alerts, now, tz, ret, scan, proc>>

----------------------------------------------------------------------------
(* Bounds of the model *)

MaxSnaps == 4

MaxTime == 16

TickHours == 8

MaxStoreRows == 3

MaxScanRows == 3

MaxRuns == 2

MaxConcRows == 4

NumEvaluators == 2

MaxTs == 1

MaxRunsBefore == 0

MaxPriceElems == 2

MaxSigRows == 2

\* the runs of cmd_scan whose termination is explored
MaxFairRuns == 1

\* the rows of the snapshots table when process_snapshot is taken step by step
MaxStepRows == 3

\* the rows of the snapshots table when prices of zero and below are stored
MaxZeroRows == 3

\* the rows of the snapshots table when detect_drop is called on its own
MaxDetectRows == 3

\* the rows of the snapshots table when a scan is repeated
MaxRescanRows == 4

\* the rows of the snapshots table when callers set the timestamps
MaxStampRows == 3

(* Program constants *)

hours == 12

default_min_abs == 20

default_min_pct == 8

----------------------------------------------------------------------------
(* Input domains *)

ProductIds == {"p1", "p2"}

\* config: the links of each product, in order (ProductSpec.links)
Links(pid) ==
    IF pid = "p1"
    THEN <<"https://www.canadacomputers.com/p1", "https://shop.example.com/p1">>
    ELSE <<"https://shop.example.com/p2", "https://www.amazon.ca/p2">>

Prices == {80, 100}

\* <<min_abs, min_pct in hundredths>>
Thresholds == {<<20, 8>>, <<30, 8>>, <<20, 25>>, <<0, 0>>}

UtcOffsets == {-8, 0, 8}

Elapsed == {0, TickHours}

\* config: the products in file order
Products == <<"p1", "p2">>

\* the prices a retailer's page may show during a scan
PagePrices == {60, 80, 100}

\* config: the thresholds of p1; p2 carries none and gets the defaults
ConfigThresholds == {<<20, 8>>, <<30, 8>>}

None == <<>>

Some(v) == <<v>>

----------------------------------------------------------------------------
(* adapter_generic.create_snapshot: retailer id from the URL's host *)

Host(url) ==
    CASE url = "https://www.canadacomputers.com/p1" -> "www.canadacomputers.com"
      [] url = "https://shop.example.com/p1" -> "shop.example.com"
      [] url = "https://www.amazon.ca/p2" -> "www.amazon.ca"
      [] OTHER -> "shop.example.com"

RetailerOf(url) ==
    CASE Host(url) = "www.canadacomputers.com" -> "canadacomputers.com"
      [] Host(url) = "www.amazon.ca" -> "amazon.ca"
      [] OTHER -> Host(url)

\* datetime.now().isoformat(): the naive local time
LocalNow(utc, offset) == utc + offset

\* models.OfferSnapshot, with ts from its default factory
OfferSnapshot(pid, url, price, ts) ==
    [product_id |-> pid, retailer_id |-> RetailerOf(url), url |-> url,
     ts |-> ts, price |-> price]

----------------------------------------------------------------------------
(* storage.py *)

save_snapshot_if_changed(rows, snapshot) ==
    IF \E i \in 1..Len(rows) :
           /\ rows[i].url = snapshot.url
           /\ rows[i].price = snapshot.price
    THEN rows
    ELSE Append(rows, snapshot)

\* INSERT INTO snapshots (...) VALUES (...)
save_snapshot(rows, snapshot) == Append(rows, snapshot)

save_alert_replacing(rows, alert) ==
    Append(SelectSeq(rows, LAMBDA r : r.product_id # alert.product_id), alert)

\* INSERT INTO alerts (...) VALUES (...)
save_alert(rows, alert) == Append(rows, alert)

\* WHERE product_id = ?
ProductRows(rows, pid) == SelectSeq(rows, LAMBDA r : r.product_id = pid)

RemoveAt(s, i) == SubSeq(s, 1, i - 1) \o SubSeq(s, i + 1, Len(s))

FirstDesc_lowest_rowid(rows) ==
    CHOOSE i \in 1..Len(rows) :
        \A j \in 1..Len(rows) :
            \/ rows[j].ts < rows[i].ts
            \/ rows[j].ts = rows[i].ts /\ j >= i

\* The row ORDER BY ts DESC puts first: the greatest ts and, among equal ts,
\* the greatest row id (the query walks idx_snapshots_product_ts backwards).
FirstDesc(rows) ==
    CHOOSE i \in 1..Len(rows) :
        \A j \in 1..Len(rows) :
            \/ rows[j].ts < rows[i].ts
            \/ rows[j].ts = rows[i].ts /\ j <= i

RECURSIVE OrderByTsDesc(_)
OrderByTsDesc(rows) ==
    IF rows = <<>> THEN <<>>
    ELSE LET i == FirstDesc(rows)
         IN  <<rows[i]>> \o OrderByTsDesc(RemoveAt(rows, i))

get_last_price_offset0(rows, pid) ==
    LET o == OrderByTsDesc(ProductRows(rows, pid))
    IN  IF Len(o) >= 1 THEN Some(o[1].price) ELSE None

get_last_price_by_rowid(rows, pid) ==
    LET o == ProductRows(rows, pid)
    IN  IF Len(o) >= 2 THEN Some(o[Len(o) - 1].price) ELSE None

\* SELECT price ... WHERE product_id = ? ORDER BY ts DESC LIMIT 1 OFFSET 1
get_last_price(rows, pid) ==
    LET o == OrderByTsDesc(ProductRows(rows, pid))
    IN  IF Len(o) >= 2 THEN Some(o[2].price) ELSE None

\* SELECT COUNT(*) ... WHERE product_id = ? AND new_price = ?
\*   AND datetime(ts) > datetime('now', '-12 hours');  count > 0
\* ts is the stored stamp as written (local time), 'now' is UTC.
check_recent_alert(rows, pid, new_price, utc) ==
    \E i \in 1..Len(rows) :
        /\ rows[i].product_id = pid
        /\ rows[i].new_price = new_price
        /\ rows[i].ts > utc - hours

----------------------------------------------------------------------------
(* engine.py *)

\* pct_drop = abs_drop / last_price if last_price > 0 else 0
PctDrop_divides(last_price, current_price) ==
    [num |-> last_price - current_price, den |-> last_price]

\* abs_drop / last_price if last_price > 0 else 0, as a fraction
PctDrop(last_price, current_price) ==
    IF last_price > 0
    THEN [num |-> last_price - current_price, den |-> last_price]
    ELSE [num |-> 0, den |-> 1]

\* pct_drop >= min_pct, min_pct in hundredths
PctAtLeast(pct, min_pct) == pct.num * 100 >= min_pct * pct.den

\* f"{x:.2f}": the amount in cents, printed with two decimals
Fmt2(x) == x * 100

\* f"{pct_drop*100:.1f}": tenths of a percent, rounded to nearest
Fmt1Pct(pct) == (2 * pct.num * 1000 + pct.den) \div (2 * pct.den)

\* f"last {last_price:.2f} -> {current_price:.2f} (-{pct_drop*100:.1f}%)"
Reason(last_price, current_price, pct) ==
    [old |-> Fmt2(last_price), new |-> Fmt2(current_price), pct |-> Fmt1Pct(pct)]

PriceEvent_swapped(snapshot, last_price, pct, ts) ==
    [product_id |-> snapshot.product_id,
     retailer_id |-> snapshot.retailer_id,
     ts |-> ts,
     event_type |-> "drop",
     old_price |-> snapshot.price,
     new_price |-> last_price,
     pct_change |-> pct,
     reason |-> Reason(last_price, snapshot.price, pct)]

\* models.PriceEvent, with ts from its default factory
PriceEvent(snapshot, last_price, pct, ts) ==
    [product_id |-> snapshot.product_id,
     retailer_id |-> snapshot.retailer_id,
     ts |-> ts,
     event_type |-> "drop",
     old_price |-> last_price,
     new_price |-> snapshot.price,
     pct_change |-> pct,
     reason |-> Reason(last_price, snapshot.price, pct)]

TriggeredEither(last_price, current_price, min_abs, min_pct) ==
    \/ last_price - current_price >= min_abs
    \/ PctAtLeast(PctDrop(last_price, current_price), min_pct)

\* if abs_drop >= min_abs and pct_drop >= min_pct
Triggered(last_price, current_price, min_abs, min_pct) ==
    /\ last_price - current_price >= min_abs
    /\ PctAtLeast(PctDrop(last_price, current_price), min_pct)

\* detect_drop, given the result of get_last_price and (when it is consulted)
\* of check_recent_alert: the event it returns, or None
DropResult(snapshot, last, recent, min_abs, min_pct, local) ==
    IF last = None THEN None
    ELSE IF ~Triggered(last[1], snapshot.price, min_abs, min_pct) THEN None
    ELSE IF recent THEN None
    ELSE Some(PriceEvent(snapshot, last[1],
                         PctDrop(last[1], snapshot.price), local))

\* whether detect_drop reaches the call of check_recent_alert
ConsultsAlerts(snapshot, last, min_abs, min_pct) ==
    /\ last # None
    /\ Triggered(last[1], snapshot.price, min_abs, min_pct)

detect_drop(snaps, als, utc, offset, snapshot, min_abs, min_pct) ==
    LET last == get_last_price(snaps, snapshot.product_id)
    IN  DropResult(snapshot, last,
                   check_recent_alert(als, snapshot.product_id, snapshot.price, utc),
                   min_abs, min_pct, LocalNow(utc, offset))

\* The record of one completed process_snapshot call
CallRecord(snaps0, als0, utc, offset, snapshot, min_abs, min_pct) ==
    LET snaps1 == save_snapshot(snaps0, snapshot)
        last   == get_last_price(snaps1, snapshot.product_id)
    IN  [op |-> "process_snapshot",
         snapshot |-> snapshot,
         min_abs |-> min_abs,
         min_pct |-> min_pct,
         at |-> utc,
         last_price |-> last,
         checked |-> ConsultsAlerts(snapshot, last, min_abs, min_pct),
         alerts0 |-> als0,
         event |-> detect_drop(snaps1, als0, utc, offset, snapshot, min_abs, min_pct)]

NoCall ==
    [op |-> "none", snapshot |-> OfferSnapshot("p1", Links("p1")[1], 0, 0),
     min_abs |-> 0, min_pct |-> 0, at |-> 0, last_price |-> None,
     checked |-> FALSE, alerts0 |-> <<>>, event |-> None]

\* process_snapshot as one step: save the snapshot, detect, save the alert.
\* (The e-mail notification follows the save and changes no table.)
process_snapshot(snapshot, min_abs, min_pct) ==
    LET r == CallRecord(snapshots, alerts, now', tz, snapshot, min_abs, min_pct)
    IN  /\ snapshots' = save_snapshot(snapshots, snapshot)
        /\ alerts' = IF r.event # None THEN save_alert(alerts, r.event[1]) ELSE alerts
        /\ ret' = r

\* processes (two scans started side by side, say) that share the database
Evaluators == 1..NumEvaluators

Idle == [pc |-> "idle", snapshot |-> NoCall.snapshot, min_abs |-> 0, min_pct |-> 0,
         last |-> None, event |-> None]

\* log: what the run has printed, one entry per link handled: the link and
\* the tags of its lines ([OK], [DROP], [WARN], [ERROR]) in order
NoScan == [active |-> FALSE, run |-> 0, pi |-> 0, li |-> 0, snaps0 |-> 0, alerts0 |-> 0,
           min_abs |-> 0, min_pct |-> 0, log |-> <<>>]

Init ==
    /\ snapshots = <<>>
    /\ alerts = <<>>
    /\ now = 0
    /\ tz \in UtcOffsets
    /\ ret = NoCall
    /\ scan = NoScan
    /\ proc = [w \in Evaluators |-> Idle]

\* A caller builds a snapshot of the product's first link and hands it to
\* process_snapshot (test_drop.py), d hours after the previous operation.
ProcessSnapshot ==
    \E d \in Elapsed, pid \in ProductIds, price \in Prices, t \in Thresholds :
        /\ Len(snapshots) < MaxSnaps
        /\ now + d <= MaxTime
        /\ now' = now + d
        /\ process_snapshot(OfferSnapshot(pid, Links(pid)[1], price, LocalNow(now', tz)),
                            t[1], t[2])
        /\ UNCHANGED <<tz, scan, proc>>

Next == ProcessSnapshot

Spec == Init /\ [][Next]_vars

----------------------------------------------------------------------------
(* The store on its own: Storage.save_snapshot called with snapshots whose  *)
(* ts the caller has set (OfferSnapshot.ts is an ordinary field), so that   *)
(* the order of the stamps and the order of the row ids may differ and      *)
(* stamps may repeat.                                                       *)

StoreSnapshot ==
    \E pid \in ProductIds, price \in Prices, ts \in 0..MaxTs :
        /\ Len(snapshots) < MaxStoreRows
        /\ snapshots' = save_snapshot(snapshots,
                                      OfferSnapshot(pid, Links(pid)[1], price, ts))
        /\ UNCHANGED <<alerts, now, tz, ret, scan, proc>>

NextStore == StoreSnapshot

SpecStore == Init /\ [][NextStore]_vars

----------------------------------------------------------------------------
(* process_snapshot run by several processes on one database.  Each call of *)
(* a Storage method opens its own connection and is one transaction, so one *)
(* evaluation is four steps: save_snapshot, get_last_price,                 *)
(* check_recent_alert, save_alert.  The calls carry the default thresholds  *)
(* and happen within one hour.                                              *)

\* self.storage.save_snapshot(snapshot)
CSaveSnapshot(w) ==
    \E pid \in ProductIds, price \in Prices :
        /\ proc[w].pc = "idle"
        /\ Len(snapshots) < MaxConcRows
        /\ LET s == OfferSnapshot(pid, Links(pid)[1], price, LocalNow(now, tz))
           IN  /\ snapshots' = save_snapshot(snapshots, s)
               /\ proc' = [proc EXCEPT ![w] =
                              [pc |-> "saved", snapshot |-> s,
                               min_abs |-> default_min_abs,
                               min_pct |-> default_min_pct,
                               last |-> None, event |-> None]]
        /\ UNCHANGED <<alerts, now, tz, ret, scan>>

\* last_price = self.storage.get_last_price(...); the call returns None when
\* there is no previous price or a threshold is not met
CGetLastPrice(w) ==
    /\ proc[w].pc = "saved"
    /\ LET last == get_last_price(snapshots, proc[w].snapshot.product_id)
       IN  proc' = [proc EXCEPT ![w] =
                       IF ConsultsAlerts(proc[w].snapshot, last,
                                         proc[w].min_abs, proc[w].min_pct)
                       THEN [@ EXCEPT !.pc = "priced", !.last = last]
                       ELSE Idle]
    /\ UNCHANGED <<snapshots, alerts, now, tz, ret, scan>>

\* if self.storage.check_recent_alert(...): return None; else build the event
CCheckRecentAlert(w) ==
    /\ proc[w].pc = "priced"
    /\ LET e == DropResult(proc[w].snapshot, proc[w].last,
                           check_recent_alert(alerts, proc[w].snapshot.product_id,
                                              proc[w].snapshot.price, now),
                           proc[w].min_abs, proc[w].min_pct, LocalNow(now, tz))
       IN  proc' = [proc EXCEPT ![w] =
                       IF e = None THEN Idle
                       ELSE [@ EXCEPT !.pc = "alerting", !.event = e]]
    /\ UNCHANGED <<snapshots, alerts, now, tz, ret, scan>>

\* self.storage.save_alert(drop_event); return drop_event
CSaveAlert(w) ==
    /\ proc[w].pc = "alerting"
    /\ alerts' = save_alert(alerts, proc[w].event[1])
    /\ proc' = [proc EXCEPT ![w] = Idle]
    /\ UNCHANGED <<snapshots, now, tz, ret, scan>>

NextConc ==
    \E w \in Evaluators :
        \/ CSaveSnapshot(w)
        \/ CGetLastPrice(w)
        \/ CCheckRecentAlert(w)
        \/ CSaveAlert(w)

SpecConc == Init /\ [][NextConc]_vars

----------------------------------------------------------------------------
(* cli.cmd_scan: products in order, the links of each in order.  Every link *)
(* of one run is handled within the hour the run started in.                *)

\* select_adapter: the amazon stub raises SkipException, the others extract
AdapterSkips(url) == RetailerOf(url) = "amazon.ca"

\* thresholds = product.thresholds or defaults; .get("min_abs", 20) ...
ScanThresholds(pid) ==
    IF pid = "p1" THEN <<scan.min_abs, scan.min_pct>>
    ELSE <<default_min_abs, default_min_pct>>

\* the loop moves to the next link, or to the first link of the next product
Advance ==
    IF scan.li < Len(Links(Products[scan.pi]))
    THEN [scan EXCEPT !.li = scan.li + 1]
    ELSE [scan EXCEPT !.pi = scan.pi + 1, !.li = 1]

AtLink == scan.active /\ scan.pi <= Len(Products)

CurrentLink == Links(Products[scan.pi])[scan.li]

\* the lines printed for the current link, then the next link
Continue(out) ==
    [Advance EXCEPT !.log = Append(scan.log, [link |-> CurrentLink, out |-> out])]

\* print("[OK] fetched ..."); if drop_event: print("[DROP] ...")
OkLines(event) == IF event # None THEN <<"OK", "DROP">> ELSE <<"OK">>

\* load_products_config, Storage(), PriceEngine(): a run starts
ScanStart ==
    \E d \in Elapsed, t \in ConfigThresholds :
        /\ ~scan.active
        /\ scan.run < MaxRuns
        /\ now + d <= MaxTime
        /\ now' = now + d
        /\ scan' = [active |-> TRUE, run |-> scan.run + 1, pi |-> 1, li |-> 1,
                    snaps0 |-> Len(snapshots), alerts0 |-> Len(alerts),
                    min_abs |-> t[1], min_pct |-> t[2], log |-> <<>>]
        /\ UNCHANGED <<snapshots, alerts, tz, ret, proc>>

\* the adapter returns a snapshot: process_snapshot, then the next link
ScanLinkOk ==
    \E price \in PagePrices :
        /\ AtLink
        /\ ~AdapterSkips(CurrentLink)
        /\ Len(snapshots) < MaxScanRows
        /\ now' = now
        /\ process_snapshot(OfferSnapshot(Products[scan.pi], CurrentLink, price,
                                          LocalNow(now, tz)),
                            ScanThresholds(Products[scan.pi])[1],
                            ScanThresholds(Products[scan.pi])[2])
        /\ scan' = Continue(OkLines(ret'.event))
        /\ UNCHANGED <<tz, proc>>

\* the stub prints its warning and raises; except SkipException: continue
ScanLinkSkip ==
    /\ AtLink
    /\ AdapterSkips(CurrentLink)
    /\ scan' = Continue(<<"WARN">>)
    /\ UNCHANGED <<snapshots, alerts, now, tz, ret, proc>>

ScanLinkError_aborts ==
    /\ AtLink
    /\ ~AdapterSkips(CurrentLink)
    /\ scan' = [Continue(<<"ERROR">>) EXCEPT !.pi = Len(Products) + 1, !.li = 1]
    /\ UNCHANGED <<snapshots, alerts, now, tz, ret, proc>>

ScanLinkError_retries ==
    /\ AtLink
    /\ ~AdapterSkips(CurrentLink)
    /\ scan' = IF scan.log # <<>> /\ scan.log[Len(scan.log)].link = CurrentLink
               THEN Continue(<<"ERROR">>)
               ELSE [scan EXCEPT !.log = Append(scan.log, [link |-> CurrentLink,
                                                           out |-> <<"ERROR">>])]
    /\ UNCHANGED <<snapshots, alerts, now, tz, ret, proc>>

\* except Exception (fetch or extraction failed): report, continue
ScanLinkError ==
    /\ AtLink
    /\ ~AdapterSkips(CurrentLink)
    /\ scan' = Continue(<<"ERROR">>)
    /\ UNCHANGED <<snapshots, alerts, now, tz, ret, proc>>

\* after the last product: the summary is printed and the run returns 0
ScanEnd ==
    /\ scan.active
    /\ scan.pi > Len(Products)
    /\ scan' = [scan EXCEPT !.active = FALSE]
    /\ UNCHANGED <<snapshots, alerts, now, tz, ret, proc>>

NextScan == ScanStart \/ ScanLinkOk \/ ScanLinkSkip \/ ScanLinkError \/ ScanEnd

SpecScan == Init /\ [][NextScan]_vars

\* one pass of the body of `for link in product.links`, or the end of the
\* run.  The loops are sequential code without a wait: the fetch returns or
\* raises within its timeout (httpx.Client(timeout=15.0)), the stub raises at
\* once, so a run that has started keeps taking its next step.
ScanStep == ScanLinkError \/ ScanLinkSkip \/ ScanEnd \/ ScanLinkOk

\* a run starts, while fewer than MaxFairRuns have
ScanStartFair == scan.run < MaxFairRuns /\ ScanStart

NextScanFair == ScanStartFair \/ ScanStep

SpecScanFair == Init /\ [][NextScanFair]_vars /\ WF_vars(ScanStep)

----------------------------------------------------------------------------
(* Text, as the extractor reads it.  A text is the sequence of its          *)
(* characters; the texts of the model hold digits, the comma, the minus     *)
(* sign, the dollar sign and letters, and no decimal point (a price is a    *)
(* whole number of dollars).                                                *)

Digits == <<"0", "1", "2", "3", "4", "5", "6", "7", "8", "9">>

IsDigit(c) == \E d \in 1..10 : Digits[d] = c

DigitVal(c) == (CHOOSE d \in 1..10 : Digits[d] = c) - 1

AllDigits(t) == t # <<>> /\ \A i \in 1..Len(t) : IsDigit(t[i])

RECURSIVE DigitsValue(_)
DigitsValue(t) ==
    IF t = <<>> THEN 0
    ELSE 10 * DigitsValue(SubSeq(t, 1, Len(t) - 1)) + DigitVal(t[Len(t)])

\* text.replace(',', '')
StripCommas(t) == SelectSeq(t, LAMBDA c : c # ",")

\* float(text): the number, or None where Python raises ValueError
float(t) ==
    IF AllDigits(t) THEN Some(DigitsValue(t))
    ELSE IF Len(t) >= 2 /\ t[1] = "-" /\ AllDigits(Tail(t))
         THEN Some(0 - DigitsValue(Tail(t)))
         ELSE None

\* re.search(r'[\d,]+\.?\d*', text) on a text without commas and points:
\* the leftmost longest run of digits, or None
re_search(t) ==
    IF \E i \in 1..Len(t) : IsDigit(t[i])
    THEN LET i == CHOOSE a \in 1..Len(t) :
                      IsDigit(t[a]) /\ \A b \in 1..(a - 1) : ~IsDigit(t[b])
             j == CHOOSE a \in i..Len(t) :
                      /\ \A b \in i..a : IsDigit(t[b])
                      /\ a < Len(t) => ~IsDigit(t[a + 1])
         IN  Some(SubSeq(t, i, j))
    ELSE None

RECURSIVE NatStr(_)
NatStr(n) ==
    IF n < 10 THEN <<Digits[n + 1]>>
    ELSE NatStr(n \div 10) \o <<Digits[(n % 10) + 1]>>

\* str(n) of a whole number
IntStr(n) == IF n < 0 THEN <<"-">> \o NatStr(0 - n) ELSE NatStr(n)

\* a JSON value of the structured data: a number or a string
JsonNumber(n) == [kind |-> "number", num |-> n, text |-> <<>>]

JsonString(t) == [kind |-> "string", num |-> 0, text |-> t]

\* `if price:` of Python
Truthy(j) == IF j.kind = "number" THEN j.num # 0 ELSE j.text # <<>>

\* str(price)
str(j) == IF j.kind = "number" THEN IntStr(j.num) ELSE j.text

----------------------------------------------------------------------------
(* A fetched page, as extract_simple.py reads it:                           *)
(*   jsonld      what extruct gives for the page: it raises, or there is no *)
(*               Product item, or the first Product item with its offers    *)
(*               (None, or an offer with price and priceCurrency)           *)
(*   itemprop    //*[@itemprop="price"]/@content, in document order         *)
(*   og_amount   //meta[@property="product:price:amount"]/@content          *)
(*   og_currency //meta[@property="product:price:currency"]/@content        *)
(*   classed     the text of the elements whose class holds "price" and not *)
(*               "compare", in document order                               *)

Currencies == {None, Some("USD")}

JsonPrices ==
    {JsonNumber(0), JsonNumber(100), JsonString(<<"0">>), JsonString(<<"-", "5">>),
     JsonString(<<"1", ",", "2", "0", "0">>), JsonString(<<"a">>)}

Offers ==
    {None} \cup
    {Some([price |-> p, priceCurrency |-> c]) :
        p \in {None} \cup {Some(j) : j \in JsonPrices}, c \in Currencies}

JsonLds ==
    {[kind |-> "raises", offers |-> None], [kind |-> "none", offers |-> None]}
    \cup {[kind |-> "product", offers |-> o] : o \in Offers}

ItemPropTexts == {<<"8", "0">>, <<"0">>, <<"$", "8", "0">>}

OgTexts == {<<"6", "0">>, <<"-", "5">>, <<"a">>}

ClassTexts == {<<"0">>, <<"$", "6", "0">>, <<"-", "5">>, <<"a">>}

SeqsUpTo(S, n) == UNION {[1..k -> S] : k \in 0..n}

Pages ==
    [jsonld : JsonLds,
     itemprop : SeqsUpTo(ItemPropTexts, 1),
     og_amount : SeqsUpTo(OgTexts, 1),
     og_currency : SeqsUpTo({"USD"}, 1),
     classed : SeqsUpTo(ClassTexts, MaxPriceElems)]

----------------------------------------------------------------------------
(* extract_simple.py *)

PriceData(price, currency, source) ==
    [price |-> price, currency |-> currency, source |-> source]

_extract_product_price(offers) ==
    IF offers = None THEN None
    ELSE LET price == offers[1].price
         IN  IF price = None \/ ~Truthy(price[1]) THEN None
             ELSE LET price_float == float(StripCommas(str(price[1])))
                  IN  IF price_float = None THEN None
                      ELSE Some(PriceData(price_float[1],
                                          offers[1].priceCurrency, "jsonld"))

\* try: ... except Exception: return None
extract_from_jsonld(page) ==
    IF page.jsonld.kind = "product"
    THEN _extract_product_price(page.jsonld.offers)
    ELSE None

\* the class-name fallback, from the k-th element on
RECURSIVE price_elements(_, _)
price_elements(texts, k) ==
    IF k > Len(texts) THEN None
    ELSE LET price_match == re_search(StripCommas(texts[k]))
             price == IF price_match = None THEN None
                      ELSE float(StripCommas(price_match[1]))
         IN  IF price # None /\ price[1] > 0
             THEN Some(PriceData(price[1], None, "dom"))
             ELSE price_elements(texts, k + 1)

\* Open Graph meta tags, then the class-name fallback
og_then_classes(page) ==
    LET og_price == IF page.og_amount # <<>>
                    THEN float(StripCommas(page.og_amount[1]))
                    ELSE None
    IN  IF og_price # None
        THEN Some(PriceData(og_price[1],
                            IF page.og_currency # <<>>
                            THEN Some(page.og_currency[1]) ELSE None,
                            "dom"))
        ELSE price_elements(page.classed, 1)

extract_from_dom_value_error_ends(page) ==
    LET micro == IF page.itemprop # <<>>
                 THEN float(StripCommas(page.itemprop[1]))
                 ELSE None
    IN  IF page.itemprop # <<>> /\ micro = None THEN None
        ELSE IF micro # None THEN Some(PriceData(micro[1], None, "dom"))
        ELSE og_then_classes(page)

\* microdata first; a ValueError of float() is passed over
extract_from_dom(page) ==
    LET micro == IF page.itemprop # <<>>
                 THEN float(StripCommas(page.itemprop[1]))
                 ELSE None
    IN  IF micro # None THEN Some(PriceData(micro[1], None, "dom"))
        ELSE og_then_classes(page)

extract_price_dom_first(fetched) ==
    IF fetched = None THEN [ok |-> FALSE, error |-> "fetch"]
    ELSE LET jsonld == extract_from_jsonld(fetched[1])
             dom == extract_from_dom(fetched[1])
         IN  IF dom # None THEN [ok |-> TRUE, data |-> dom[1]]
             ELSE IF jsonld # None THEN [ok |-> TRUE, data |-> jsonld[1]]
             ELSE [ok |-> FALSE, error |-> "ValueError"]

\* the result: the price data, or the exception that is raised.  fetched is
\* None when fetch raises (network, HTTP status), else the page.
extract_price(fetched) ==
    IF fetched = None THEN [ok |-> FALSE, error |-> "fetch"]
    ELSE LET jsonld == extract_from_jsonld(fetched[1])
             dom == extract_from_dom(fetched[1])
         IN  IF jsonld # None THEN [ok |-> TRUE, data |-> jsonld[1]]
             ELSE IF dom # None THEN [ok |-> TRUE, data |-> dom[1]]
             ELSE [ok |-> FALSE, error |-> "ValueError"]

----------------------------------------------------------------------------
(* models.OfferSnapshot with all its fields, and adapter_generic.py *)

\* str(x) of a float that holds a whole number: "100.0"
FloatStr(x) == IntStr(x) \o <<".", "0">>

\* hashlib.sha1(data.encode()).hexdigest(), taken as injective
sha1(data) == data

\* f"{url}|{price}|{currency}|{list_price or ''}"
sig_data(url, price, currency, list_price) ==
    <<url, "|">> \o FloatStr(price) \o <<"|", currency, "|">>
    \o (IF list_price = None \/ list_price[1] = 0
        THEN <<>>
        ELSE FloatStr(list_price[1]))

generate_signature_stamped(s) ==
    IF s.raw_signature = <<>>
    THEN [s EXCEPT !.raw_signature =
             sha1(sig_data(s.url, s.price, s.currency, s.list_price)
                  \o <<"|">> \o IntStr(s.ts))]
    ELSE s

\* the validator that runs after construction; <<>> is the empty string
generate_signature(s) ==
    IF s.raw_signature = <<>>
    THEN [s EXCEPT !.raw_signature =
             sha1(sig_data(s.url, s.price, s.currency, s.list_price))]
    ELSE s

\* OfferSnapshot(...) with raw_signature and in_stock left to their defaults
NewOfferSnapshot(pid, retailer, url, ts, price, currency, list_price, source) ==
    generate_signature(
        [product_id |-> pid, retailer_id |-> retailer, url |-> url, ts |-> ts,
         price |-> price, currency |-> currency, list_price |-> list_price,
         in_stock |-> None, parse_source |-> source, raw_signature |-> <<>>])

\* config: ProductSpec.currency.  p1 names none, p2 names the default; p3 and
\* p4 are products of a config that prefers a foreign currency.
ProductCurrency(pid) ==
    CASE pid = "p1" -> None
      [] pid = "p3" -> Some("USD")
      [] pid = "p4" -> Some("EUR")
      [] OTHER -> Some("CAD")

\* price * 1.4, for the model's prices (multiples of 5)
TimesFactor(price) == (price * 14) \div 10

\* adapter_generic.create_snapshot: the snapshot, or the exception of
\* extract_price
create_snapshot(url, pid, fetched, ts) ==
    LET r == extract_price(fetched)
    IN  IF ~r.ok THEN r
        ELSE LET detected == IF r.data.currency # None THEN r.data.currency
                             ELSE IF ProductCurrency(pid) # None
                                  THEN ProductCurrency(pid)
                                  ELSE Some("CAD")
                 usd == detected[1] = "USD"
                 currency == IF usd THEN "CAD" ELSE detected[1]
                 price == IF usd THEN TimesFactor(r.data.price) ELSE r.data.price
                 snapshot == NewOfferSnapshot(pid, RetailerOf(url), url, ts, price,
                                              currency, None, r.data.source)
             IN  [ok |-> TRUE,
                  data |-> r.data,
                  snapshot |->
                      [snapshot EXCEPT !.raw_signature =
                          sha1(sig_data(url, snapshot.price, currency,
                                        snapshot.list_price))]]

----------------------------------------------------------------------------
(* One adapter call on one page.  The page the retailer serves (or the      *)
(* failure of the fetch) is drawn at the start; the machine is on UTC.      *)

Fetched == {None} \cup {Some(p) : p \in Pages}

InitExtract ==
    /\ snapshots = <<>>
    /\ alerts = <<>>
    /\ now = 0
    /\ tz = 0
    /\ scan = NoScan
    /\ proc = [w \in Evaluators |-> Idle]
    /\ ret \in {[op |-> "fetch", pid |-> pid, url |-> Links(pid)[1], fetched |-> f] :
                   pid \in ProductIds, f \in Fetched}

\* snapshot = adapter(link, product)
CreateSnapshot ==
    /\ ret.op = "fetch"
    /\ ret' = [op |-> "create_snapshot", pid |-> ret.pid, url |-> ret.url,
               fetched |-> ret.fetched,
               result |-> create_snapshot(ret.url, ret.pid, ret.fetched,
                                          LocalNow(now, tz))]
    /\ UNCHANGED <<snapshots, alerts, now, tz, scan, proc>>

NextExtract == CreateSnapshot

SpecExtract == InitExtract /\ [][NextExtract]_vars

----------------------------------------------------------------------------
(* Snapshots with their signature on the way to the store: built by a       *)
(* caller from its own values (as test_drop.py does) or by the adapter from *)
(* a page, then handed to Storage.save_snapshot.                            *)

SigCurrencies == {"CAD", "USD"}

ListPrices == {None, Some(0), Some(100)}

\* pages whose structured data gives the price 100, with or without currency
SigPages ==
    {[jsonld |-> [kind |-> "product",
                  offers |-> Some([price |-> Some(JsonNumber(100)),
                                   priceCurrency |-> c])],
      itemprop |-> <<>>, og_amount |-> <<>>, og_currency |-> <<>>,
      classed |-> <<>>] : c \in Currencies}

\* OfferSnapshot(product_id=..., ..., parse_source="test"); save_snapshot
StoreConstructed ==
    \E price \in Prices, currency \in SigCurrencies, list_price \in ListPrices,
       ts \in 0..MaxTs :
        /\ Len(snapshots) < MaxSigRows
        /\ snapshots' =
               save_snapshot(snapshots,
                             NewOfferSnapshot("p1", RetailerOf(Links("p1")[1]),
                                              Links("p1")[1], ts, price, currency,
                                              list_price, "test"))
        /\ UNCHANGED <<alerts, now, tz, ret, scan, proc>>

\* snapshot = adapter(link, product); save_snapshot
StoreAdapted ==
    \E pid \in ProductIds, page \in SigPages, ts \in 0..MaxTs :
        LET r == create_snapshot(Links(pid)[1], pid, Some(page), ts)
        IN  /\ Len(snapshots) < MaxSigRows
            /\ r.ok
            /\ snapshots' = save_snapshot(snapshots, r.snapshot)
            /\ UNCHANGED <<alerts, now, tz, ret, scan, proc>>

NextSig == StoreConstructed \/ StoreAdapted

SpecSig == Init /\ [][NextSig]_vars

----------------------------------------------------------------------------
(* One adapter call, over the currencies a page may declare and the         *)
(* currencies a product of the config may prefer.                           *)

CurrencyProductIds == {"p1", "p2", "p3", "p4"}

CurrencyCodes == {"CAD", "USD", "EUR"}

\* pages whose price is found by the structured data (with or without
\* priceCurrency), by the itemprop attribute (never a currency) or by the Open
\* Graph tags (with or without product:price:currency)
CurrencyPages ==
    {[jsonld |-> [kind |-> "product",
                  offers |-> Some([price |-> Some(JsonNumber(n)),
                                   priceCurrency |-> c])],
      itemprop |-> <<>>, og_amount |-> <<>>, og_currency |-> <<>>,
      classed |-> <<>>] :
        n \in Prices, c \in {None} \cup {Some(code) : code \in CurrencyCodes}}
    \cup
    {[jsonld |-> [kind |-> "none", offers |-> None],
      itemprop |-> <<>>, og_amount |-> <<t>>, og_currency |-> oc,
      classed |-> <<>>] :
        t \in {<<"6", "0">>, <<"8", "0">>}, oc \in SeqsUpTo(CurrencyCodes, 1)}
    \cup
    {[jsonld |-> [kind |-> "none", offers |-> None],
      itemprop |-> <<t>>, og_amount |-> <<>>, og_currency |-> <<>>,
      classed |-> <<>>] : t \in {<<"8", "0">>}}

InitCurrency ==
    /\ snapshots = <<>>
    /\ alerts = <<>>
    /\ now = 0
    /\ tz = 0
    /\ scan = NoScan
    /\ proc = [w \in Evaluators |-> Idle]
    /\ ret \in {[op |-> "fetch", pid |-> pid, url |-> Links(pid)[1],
                  fetched |-> Some(page)] :
                   pid \in CurrencyProductIds, page \in CurrencyPages}

SpecCurrency == InitCurrency /\ [][NextExtract]_vars

----------------------------------------------------------------------------
(* The thresholds of a product, from the entry of the YAML file to the      *)
(* pair a scan compares the drop with.  A dict of thresholds is a record    *)
(* whose fields are None for a key the dict lacks; min_pct is in hundredths.*)

ConfigMinAbs == {0, 20, 30}

ConfigMinPct == {0, 8, 25}

Dicts ==
    [min_abs : {None} \cup {Some(a) : a \in ConfigMinAbs},
     min_pct : {None} \cup {Some(p) : p \in ConfigMinPct}]

EmptyDict == [min_abs |-> None, min_pct |-> None]

\* {"min_abs": 20, "min_pct": 0.08}
DefaultDict == [min_abs |-> Some(20), min_pct |-> Some(8)]

\* the entries of the file: the thresholds key is missing, or it is there
\* with the value null or a dict
ConfigItems ==
    [format : {"minimal", "normalized"},
     has_thresholds : {FALSE},
     thresholds : {None}]
    \cup
    [format : {"minimal", "normalized"},
     has_thresholds : {TRUE},
     thresholds : {None} \cup {Some(d) : d \in Dicts}]

\* config.get('thresholds', {"min_abs": 20, "min_pct": 0.08})
_normalize_minimal_format(item) ==
    IF item.has_thresholds THEN item.thresholds ELSE Some(DefaultDict)

\* if 'thresholds' not in item: item['thresholds'] = {...}
_parse_normalized_format(item) ==
    IF ~item.has_thresholds THEN Some(DefaultDict) ELSE item.thresholds

\* ProductSpec.thresholds: None or a dict
load_products_config(item) ==
    IF item.format = "minimal"
    THEN _normalize_minimal_format(item)
    ELSE _parse_normalized_format(item)

\* x or default, for an Optional[dict] x: None and {} are falsy
OrDict(x, default) ==
    IF x = None \/ x[1] = EmptyDict THEN default ELSE x[1]

\* d.get(key, default)
Get(v, default) == IF v = None THEN default ELSE v[1]

\* cli.cmd_scan: <<min_abs, min_pct>>
cmd_scan_thresholds(product_thresholds) ==
    LET thresholds == OrDict(product_thresholds, DefaultDict)
    IN  <<Get(thresholds.min_abs, 20), Get(thresholds.min_pct, 8)>>

\* scan.scan_product: <<min_abs, min_pct>>
scan_product_thresholds(product_thresholds) ==
    LET thresholds == OrDict(product_thresholds,
                             [min_abs |-> Some(20), min_pct |-> Some(15)])
    IN  <<Get(thresholds.min_abs, 20), Get(thresholds.min_pct, 15)>>

InitThresholds ==
    /\ snapshots = <<>>
    /\ alerts = <<>>
    /\ now = 0
    /\ tz = 0
    /\ scan = NoScan
    /\ proc = [w \in Evaluators |-> Idle]
    /\ ret \in {[op |-> "config", item |-> item] : item \in ConfigItems}

\* products = load_products_config(args.config)
LoadProductsConfig ==
    /\ ret.op = "config"
    /\ ret' = [op |-> "loaded", item |-> ret.item,
               thresholds |-> load_products_config(ret.item)]
    /\ UNCHANGED <<snapshots, alerts, now, tz, scan, proc>>

\* cli.py: the thresholds handed to process_snapshot
CmdScanThresholds ==
    /\ ret.op = "loaded"
    /\ ret' = [op |-> "cmd_scan", item |-> ret.item,
               used |-> cmd_scan_thresholds(ret.thresholds)]
    /\ UNCHANGED <<snapshots, alerts, now, tz, scan, proc>>

\* scan.py: the thresholds the drop of the best deal is compared with
ScanProductThresholds ==
    /\ ret.op = "loaded"
    /\ ret' = [op |-> "scan_product", item |-> ret.item,
               used |-> scan_product_thresholds(ret.thresholds)]
    /\ UNCHANGED <<snapshots, alerts, now, tz, scan, proc>>

NextThresholds ==
    \/ LoadProductsConfig
    \/ CmdScanThresholds
    \/ ScanProductThresholds

SpecThresholds == InitThresholds /\ [][NextThresholds]_vars

----------------------------------------------------------------------------
(* PriceEngine.process_snapshot taken statement by statement, by one caller *)
(* at a time.  ret is the frame of the call:                                *)
(*   pc          the statement the call is at                               *)
(*   seen        the snapshots table as detect_drop read it                 *)
(*   at_notify   the alerts table when send_price_alert was called          *)
(*   mail        how the notification ended                                 *)
(*   returned    the value handed back to the caller                        *)

\* send_price_alert returns True, returns False (send_email caught the SMTP
\* error), or raises (ZeroDivisionError in the message text)
MailOutcomes == {"sent", "failed", "raised"}

Frame(snapshot, min_abs, min_pct, recipients) ==
    [op |-> "steps", pc |-> "called", snapshot |-> snapshot,
     min_abs |-> min_abs, min_pct |-> min_pct, recipients |-> recipients,
     snaps0 |-> snapshots, alerts0 |-> alerts,
     seen |-> <<>>, drop_event |-> None, at_notify |-> <<>>,
     mail |-> "none", returned |-> None]

\* engine.process_snapshot(snapshot, min_abs, min_pct) is called
PSCall ==
    \E d \in Elapsed, price \in Prices, t \in Thresholds, recipients \in BOOLEAN :
        /\ IF ret.op = "none" THEN TRUE ELSE ret.pc = "returned"
        /\ Len(snapshots) < MaxStepRows
        /\ now + d <= MaxTime
        /\ now' = now + d
        /\ ret' = Frame(OfferSnapshot("p1", Links("p1")[1], price, LocalNow(now', tz)),
                        t[1], t[2], recipients)
        /\ UNCHANGED <<snapshots, alerts, tz, scan, proc>>

\* self.storage.save_snapshot(snapshot)
PSSaveSnapshot ==
    /\ ret.op = "steps" /\ ret.pc = "called"
    /\ snapshots' = save_snapshot(snapshots, ret.snapshot)
    /\ ret' = [ret EXCEPT !.pc = "saved"]
    /\ UNCHANGED <<alerts, now, tz, scan, proc>>

\* drop_event = self.detect_drop(...); without an event: return None
PSDetectDrop ==
    LET drop_event == detect_drop(snapshots, alerts, now, tz, ret.snapshot,
                                  ret.min_abs, ret.min_pct)
    IN  /\ ret.op = "steps" /\ ret.pc = "saved"
        /\ ret' = [ret EXCEPT !.seen = snapshots,
                              !.drop_event = drop_event,
                              !.pc = IF drop_event # None THEN "detected"
                                     ELSE "returned"]
        /\ UNCHANGED <<snapshots, alerts, now, tz, scan, proc>>

\* self.storage.save_alert(drop_event); without an e-mail agent and
\* recipients: return drop_event
PSSaveAlert ==
    /\ ret.op = "steps" /\ ret.pc = "detected"
    /\ alerts' = save_alert(alerts, ret.drop_event[1])
    /\ ret' = IF ret.recipients
              THEN [ret EXCEPT !.pc = "alerted"]
              ELSE [ret EXCEPT !.pc = "returned", !.returned = ret.drop_event]
    /\ UNCHANGED <<snapshots, now, tz, scan, proc>>

PSSendPriceAlert_propagates ==
    \E outcome \in MailOutcomes :
        /\ ret.op = "steps" /\ ret.pc = "alerted"
        /\ ret' = [ret EXCEPT !.at_notify = alerts,
                              !.mail = outcome,
                              !.pc = "returned",
                              !.returned = IF outcome = "raised" THEN None
                                           ELSE ret.drop_event]
        /\ UNCHANGED <<snapshots, alerts, now, tz, scan, proc>>

\* try: send_price_alert(...) except Exception: print; return drop_event
PSSendPriceAlert ==
    \E outcome \in MailOutcomes :
        /\ ret.op = "steps" /\ ret.pc = "alerted"
        /\ ret' = [ret EXCEPT !.at_notify = alerts,
                              !.mail = outcome,
                              !.pc = "returned",
                              !.returned = ret.drop_event]
        /\ UNCHANGED <<snapshots, alerts, now, tz, scan, proc>>

NextSteps ==
    \/ PSCall
    \/ PSSaveSnapshot
    \/ PSDetectDrop
    \/ PSSaveAlert
    \/ PSSendPriceAlert

SpecSteps == Init /\ [][NextSteps]_vars

----------------------------------------------------------------------------
(* process_snapshot on snapshots whose price is zero or negative (a page    *)
(* that says so, or a caller's own snapshot), with thresholds of zero and   *)
(* below among those the caller passes.                                     *)

ZeroPrices == {-5, 0, 20}

ZeroThresholds == {<<0, 0>>, <<5, 0>>, <<5, 8>>, <<5, -8>>, <<-10, 0>>}

ProcessSnapshotZero ==
    \E d \in Elapsed, price \in ZeroPrices, t \in ZeroThresholds :
        /\ Len(snapshots) < MaxZeroRows
        /\ now + d <= MaxTime
        /\ now' = now + d
        /\ process_snapshot(OfferSnapshot("p1", Links("p1")[1], price,
                                          LocalNow(now', tz)),
                            t[1], t[2])
        /\ UNCHANGED <<tz, scan, proc>>

NextZero == ProcessSnapshotZero

SpecZero == Init /\ [][NextZero]_vars

----------------------------------------------------------------------------
(* PriceEngine.detect_drop called on its own, on the newest stored snapshot *)
(* of the product, and called once more with the same arguments at the same *)
(* time.  The store is filled by process_snapshot.                          *)

ProcessSnapshotP1 ==
    \E d \in Elapsed, price \in Prices, t \in Thresholds :
        /\ Len(snapshots) < MaxDetectRows
        /\ now + d <= MaxTime
        /\ now' = now + d
        /\ process_snapshot(OfferSnapshot("p1", Links("p1")[1], price,
                                          LocalNow(now', tz)),
                            t[1], t[2])
        /\ UNCHANGED <<tz, scan, proc>>

\* the record of a detect_drop call: the tables as they were, the event
DetectRecord(snapshot, min_abs, min_pct, utc) ==
    [op |-> "detect_drop", snapshot |-> snapshot,
     min_abs |-> min_abs, min_pct |-> min_pct, at |-> utc,
     snaps0 |-> snapshots, alerts0 |-> alerts,
     calls |-> 1, first |-> None,
     event |-> detect_drop(snapshots, alerts, utc, tz, snapshot, min_abs, min_pct)]

DetectDrop_persists ==
    \E d \in Elapsed, t \in Thresholds :
        LET r == DetectRecord(snapshots[Len(snapshots)], t[1], t[2], now + d)
        IN  /\ snapshots # <<>>
            /\ now + d <= MaxTime
            /\ now' = now + d
            /\ ret' = r
            /\ alerts' = IF r.event # None THEN save_alert(alerts, r.event[1])
                         ELSE alerts
            /\ UNCHANGED <<snapshots, tz, scan, proc>>

\* engine.detect_drop(snapshot, min_abs, min_pct)
DetectDrop ==
    \E d \in Elapsed, t \in Thresholds :
        /\ snapshots # <<>>
        /\ now + d <= MaxTime
        /\ now' = now + d
        /\ ret' = DetectRecord(snapshots[Len(snapshots)], t[1], t[2], now')
        /\ UNCHANGED <<snapshots, alerts, tz, scan, proc>>

\* the same call once more
DetectDropAgain ==
    /\ ret.op = "detect_drop"
    /\ ret.calls = 1
    /\ ret' = [ret EXCEPT !.calls = 2,
                          !.first = ret.event,
                          !.event = detect_drop(snapshots, alerts, now, tz,
                                                ret.snapshot, ret.min_abs,
                                                ret.min_pct)]
    /\ UNCHANGED <<snapshots, alerts, now, tz, scan, proc>>

NextDetect == ProcessSnapshotP1 \/ DetectDrop \/ DetectDropAgain

SpecDetect == Init /\ [][NextDetect]_vars

----------------------------------------------------------------------------
(* cmd_scan run again over the same config: room in the store for the rows  *)
(* of two runs of a product with two retailers, each page showing one of    *)
(* two prices.                                                              *)

\* the adapter returns a snapshot: process_snapshot, then the next link
RescanLinkOk ==
    \E price \in Prices :
        /\ AtLink
        /\ ~AdapterSkips(CurrentLink)
        /\ Len(snapshots) < MaxRescanRows
        /\ now' = now
        /\ process_snapshot(OfferSnapshot(Products[scan.pi], CurrentLink, price,
                                          LocalNow(now, tz)),
                            ScanThresholds(Products[scan.pi])[1],
                            ScanThresholds(Products[scan.pi])[2])
        /\ scan' = Continue(OkLines(ret'.event))
        /\ UNCHANGED <<tz, proc>>

NextRescan ==
    \/ ScanStart
    \/ RescanLinkOk
    \/ ScanLinkSkip
    \/ ScanLinkError
    \/ ScanEnd

SpecRescan == Init /\ [][NextRescan]_vars

----------------------------------------------------------------------------
(* process_snapshot on snapshots whose ts the caller has set (OfferSnapshot *)
(* takes ts as an ordinary field), so that stamps may repeat or run         *)
(* backwards from one call to the next.  The calls use the default          *)
(* thresholds and follow each other within the hour.                        *)

ProcessSnapshotAt ==
    \E pid \in ProductIds, price \in Prices, ts \in 0..MaxTs :
        /\ Len(snapshots) < MaxStampRows
        /\ now' = now
        /\ process_snapshot(OfferSnapshot(pid, Links(pid)[1], price, ts),
                            default_min_abs, default_min_pct)
        /\ UNCHANGED <<tz, scan, proc>>

NextStamps == ProcessSnapshotAt

SpecStamps == Init /\ [][NextStamps]_vars

----------------------------------------------------------------------------
(* cli.cmd_test_url: one adapter call on a URL given on the command line,   *)
(* while no cmd_scan is running; nothing is stored.  The command reads and  *)
(* writes nothing that a run reads or writes, so its place among the runs   *)
(* makes no difference to either; the model tries it before or after the    *)
(* first MaxRunsBefore runs.                                                *)

\* the URLs that are tried: the links of the config
TestUrls == {Links(pid)[i] : pid \in ProductIds, i \in 1..2}

\* what the adapter call does: return a snapshot, raise SkipException, or
\* raise another exception (fetch or extraction failed)
AdapterOutcomes(url) ==
    IF AdapterSkips(url) THEN {"skip"} ELSE {"snapshot", "raise"}

cmd_test_url_skip_fails(url, outcome) ==
    [op |-> "test_url", url |-> url, adapter |-> outcome,
     out |-> IF outcome = "snapshot" THEN "OK" ELSE "ERROR",
     status |-> IF outcome = "snapshot" THEN 0 ELSE 1]

\* the line printed and the exit status returned
cmd_test_url(url, outcome) ==
    [op |-> "test_url", url |-> url, adapter |-> outcome,
     out |-> CASE outcome = "snapshot" -> "OK"
               [] outcome = "skip" -> "SKIP"
               [] OTHER -> "ERROR",
     status |-> IF outcome \in {"snapshot", "skip"} THEN 0 ELSE 1]

CmdTestUrl ==
    \E url \in TestUrls :
        \E outcome \in AdapterOutcomes(url) :
            /\ ~scan.active
            /\ scan.run <= MaxRunsBefore
            /\ ret' = cmd_test_url(url, outcome)
            /\ UNCHANGED <<snapshots, alerts, now, tz, scan, proc>>

NextCli == NextScan \/ CmdTestUrl

SpecCli == Init /\ [][NextCli]_vars

----------------------------------------------------------------------------
(* cmd_scan when a Storage call raises (sqlite3.Error: the database is      *)
(* locked, the disk is full).  The connection's context manager rolls the   *)
(* statement back, the exception leaves process_snapshot and reaches the    *)
(* try of the link, after the [OK] line has been printed.                   *)

\* save_snapshot raises: nothing is stored, nothing is detected
ScanLinkSaveSnapshotFails ==
    /\ AtLink
    /\ ~AdapterSkips(CurrentLink)
    /\ scan' = Continue(<<"OK", "ERROR">>)
    /\ UNCHANGED <<snapshots, alerts, now, tz, ret, proc>>

\* save_alert raises: the snapshot is stored, the event is lost
ScanLinkSaveAlertFails ==
    \E price \in PagePrices :
        LET snapshot == OfferSnapshot(Products[scan.pi], CurrentLink, price,
                                      LocalNow(now, tz))
            r == CallRecord(snapshots, alerts, now, tz, snapshot,
                            ScanThresholds(Products[scan.pi])[1],
                            ScanThresholds(Products[scan.pi])[2])
        IN  /\ AtLink
            /\ ~AdapterSkips(CurrentLink)
            /\ Len(snapshots) < MaxScanRows
            /\ r.event # None
            /\ snapshots' = save_snapshot(snapshots, snapshot)
            /\ scan' = Continue(<<"OK", "ERROR">>)
            /\ UNCHANGED <<alerts, now, tz, ret, proc>>

NextScanFail ==
    \/ NextScan
    \/ ScanLinkSaveSnapshotFails
    \/ ScanLinkSaveAlertFails

SpecScanFail == Init /\ [][NextScanFail]_vars

----------------------------------------------------------------------------
(* Properties of process_snapshot / detect_drop, read off the record of the *)
(* last call.                                                               *)

Called == ret.op = "process_snapshot"

Prev == ret.last_price[1]

Cur == ret.snapshot.price

\* absoluteDrop >= minAbsoluteDrop
AbsMet == Prev - Cur >= ret.min_abs

\* percentDrop >= minPercentDrop, percentDrop = absoluteDrop / previousPrice
\* (zero if previousPrice <= 0), min_pct in hundredths
PctMet ==
    IF Prev > 0 THEN (Prev - Cur) * 100 >= ret.min_pct * Prev
    ELSE 0 >= ret.min_pct

NoRowAdded == alerts = ret.alerts0

\* the alert rows of the call's product and price that were there before it
SamePriceAlerts ==
    {i \in 1..Len(ret.alerts0) :
        /\ ret.alerts0[i].product_id = ret.snapshot.product_id
        /\ ret.alerts0[i].new_price = Cur}

\* the guard's window test on a stored row: the stamp as written is later
\* than the query's UTC now minus 12 hours
InGuardWindow(i) == ret.alerts0[i].ts > ret.at - hours

\* hours between the recording of alert row i and the call
HoursSince(i) == ret.at - (ret.alerts0[i].ts - tz)

\* C1: an event is returned only if BOTH the absolute drop reaches min_abs
\* AND the percent drop reaches min_pct; when there is a previous price and
\* either threshold is not met, no event is returned and no alert row added.
C1_DualThreshold ==
    Called =>
        /\ ret.event # None => (ret.last_price # None /\ AbsMet /\ PctMet)
        /\ (ret.last_price # None /\ ~(AbsMet /\ PctMet)) =>
               (ret.event = None /\ NoRowAdded)

C1_Witness ==
    /\ Called
    /\ ret.last_price # None
    /\ AbsMet
    /\ ~PctMet
    /\ ret.event = None
    /\ NoRowAdded
    /\ Len(alerts) > 0

C3_SuppressedWithinWindow ==
    (/\ Called
     /\ ret.min_abs > 0
     /\ ret.min_pct > 0
     /\ ret.last_price # None
     /\ AbsMet
     /\ PctMet
     /\ \E i \in SamePriceAlerts : HoursSince(i) >= 0 /\ HoursSince(i) < hours)
    =>
    (ret.event = None /\ NoRowAdded)

\* C5: every event in the alert log, and every event returned, has
\* new_price < old_price, whatever thresholds the caller passes.
C5_NewBelowOld ==
    /\ \A i \in 1..Len(alerts) : alerts[i].new_price < alerts[i].old_price
    /\ (Called /\ ret.event # None) => ret.event[1].new_price < ret.event[1].old_price

\* C6: a product with exactly one stored observation (the one just saved)
\* produces no event: get_last_price returns None, and detect_drop returns
\* None without consulting or changing the alert log.
C6_FirstObservation ==
    (/\ Called
     /\ Cardinality({i \in 1..Len(snapshots) :
                        snapshots[i].product_id = ret.snapshot.product_id}) = 1)
    =>
    (/\ ret.last_price = None
     /\ ret.event = None
     /\ ~ret.checked
     /\ NoRowAdded)

C6_Witness ==
    /\ Called
    /\ Cardinality({i \in 1..Len(snapshots) :
                       snapshots[i].product_id = ret.snapshot.product_id}) = 1
    /\ Len(snapshots) >= 3
    /\ Len(alerts) >= 1
    /\ ret.min_abs = 0
    /\ ret.min_pct = 0
    /\ ret.event = None

\* C10: once more than 12 hours have passed since the last alert recorded
\* for the product and price, an evaluation at that price which clears both
\* thresholds returns an event and records it.  (Stated for positive
\* thresholds, the case of a real drop.)
C10_FiresAfterWindow ==
    (/\ Called
     /\ ret.min_abs > 0
     /\ ret.min_pct > 0
     /\ ret.last_price # None
     /\ AbsMet
     /\ PctMet
     /\ SamePriceAlerts # {}
     /\ \A i \in SamePriceAlerts : HoursSince(i) > hours)
    =>
    (/\ ret.event # None
     /\ alerts = Append(ret.alerts0, ret.event[1]))

\* xs is an initial part of ys
IsPrefix(xs, ys) == Len(xs) <= Len(ys) /\ SubSeq(ys, 1, Len(xs)) = xs

\* C11: both logs are append-only: every step of every operation leaves each
\* row that was in the snapshots table or in the alerts table in its place
\* with all its fields; no row is updated or deleted.
C11_AppendOnly ==
    [][IsPrefix(snapshots, snapshots') /\ IsPrefix(alerts, alerts')]_vars

\* the logs have grown over several calls: two alerts behind four snapshots
C11_Witness ==
    /\ Called
    /\ Len(snapshots) >= 4
    /\ Len(alerts) >= 2
    /\ alerts[1].product_id = alerts[2].product_id

\* C12: every call of process_snapshot appends exactly one row to the
\* snapshots table, the snapshot it was given, whether it returns an event,
\* returns None or is silenced by the guard, and also when the snapshot
\* repeats the last stored one.
C12_EveryCallStoresOneRow ==
    [][/\ ret'.op = "process_snapshot"
       /\ snapshots' = Append(snapshots, ret'.snapshot)]_vars

\* the last call was silenced by the guard and its snapshot repeats the row
\* stored before it (same product, url, price and stamp); both are stored
C12_Witness ==
    /\ Called
    /\ ret.checked
    /\ ret.event = None
    /\ Len(snapshots) >= 3
    /\ snapshots[Len(snapshots)] = ret.snapshot
    /\ snapshots[Len(snapshots) - 1] = ret.snapshot

----------------------------------------------------------------------------
(* Properties of the store *)

RowsOf(pid) == {i \in 1..Len(snapshots) : snapshots[i].product_id = pid}

\* row i can stand second when the rows of pid are ordered by ts descending:
\* at most one row of pid is strictly newer, and at least two are as new
SecondNewest(pid, i) ==
    /\ i \in RowsOf(pid)
    /\ Cardinality({j \in RowsOf(pid) : snapshots[j].ts > snapshots[i].ts}) <= 1
    /\ Cardinality({j \in RowsOf(pid) : snapshots[j].ts >= snapshots[i].ts}) >= 2

\* C7: get_last_price(pid) is the price of the second most recent observation
\* of pid by ts descending, counting observations of pid only, and None when
\* pid has fewer than two observations.
C7_LastPriceIsSecondNewest ==
    \A pid \in ProductIds :
        LET r == get_last_price(snapshots, pid)
        IN  IF Cardinality(RowsOf(pid)) < 2
            THEN r = None
            ELSE /\ r # None
                 /\ \E i \in RowsOf(pid) :
                        SecondNewest(pid, i) /\ snapshots[i].price = r[1]

\* p1 has two rows stored newest first, with a row of p2 newer than both
C7_Witness ==
    /\ Len(snapshots) = 3
    /\ snapshots[1].product_id = "p1" /\ snapshots[1].ts = 1 /\ snapshots[1].price = 80
    /\ snapshots[2].product_id = "p2" /\ snapshots[2].ts = 1 /\ snapshots[2].price = 80
    /\ snapshots[3].product_id = "p1" /\ snapshots[3].ts = 0 /\ snapshots[3].price = 100
    /\ get_last_price(snapshots, "p1") = Some(100)
    /\ get_last_price(snapshots, "p2") = None

----------------------------------------------------------------------------
(* Properties of a scan run *)

\* the last process_snapshot call was made by the current (or last) run
CallInRun == Called /\ scan.pi > 0 /\ Len(snapshots) > scan.snaps0

\* C8: the price a call of the run compares against was stored before the
\* run began.
C8_ComparesAgainstEarlierRun ==
    (CallInRun /\ ret.last_price # None) =>
        \E i \in 1..scan.snaps0 :
            /\ snapshots[i].product_id = ret.snapshot.product_id
            /\ snapshots[i].price = ret.last_price[1]

\* the alert rows a run has added for a product
RunAlerts(pid) ==
    {i \in (scan.alerts0 + 1)..Len(alerts) : alerts[i].product_id = pid}

\* C9: one run adds at most one alert row for a product.
C9_OneEventPerProductPerRun ==
    scan.pi > 0 => \A pid \in ProductIds : Cardinality(RunAlerts(pid)) <= 1

\* the links of the first k products, in the order the loop takes them
RECURSIVE LinksThrough(_)
LinksThrough(k) ==
    IF k = 0 THEN <<>> ELSE LinksThrough(k - 1) \o Links(Products[k])

\* the links the loop has behind it at its present position
LinksBehind ==
    IF scan.pi = 0 THEN <<>>
    ELSE IF scan.pi > Len(Products) THEN LinksThrough(Len(Products))
    ELSE LinksThrough(scan.pi - 1)
         \o SubSeq(Links(Products[scan.pi]), 1, scan.li - 1)

\* the entries of the run's log whose link yielded a snapshot
FetchedEntries == SelectSeq(scan.log, LAMBDA e : e.out[1] = "OK")

\* the rows the run has stored
RunRows == SubSeq(snapshots, scan.snaps0 + 1, Len(snapshots))

\* C13: a failure on one link never aborts the run.  Whatever links have
\* failed, the run has handled every link behind its position, in order;
\* every link that did not fail has its observation stored; and the drop
\* detection of the last one was evaluated on the observations collected.
C13_FailureDoesNotAbortScan ==
    scan.pi > 0 =>
        /\ [k \in 1..Len(scan.log) |-> scan.log[k].link] = LinksBehind
        /\ [k \in 1..Len(RunRows) |-> RunRows[k].url]
               = [k \in 1..Len(FetchedEntries) |-> FetchedEntries[k].link]
        /\ FetchedEntries # <<>> =>
               /\ Called
               /\ ret.snapshot = snapshots[Len(snapshots)]
               /\ ret.last_price = get_last_price(snapshots, ret.snapshot.product_id)
               /\ ret.event # None
                      <=> FetchedEntries[Len(FetchedEntries)].out = <<"OK", "DROP">>

\* a finished second run: the first link failed, the second was fetched and
\* its drop detected against the earlier run, the third was fetched too
C13_Witness ==
    /\ scan.run = 2
    /\ scan.pi > Len(Products)
    /\ Len(scan.log) = 4
    /\ scan.log[1].out = <<"ERROR">>
    /\ scan.log[2].out = <<"OK", "DROP">>
    /\ scan.log[3].out = <<"OK">>
    /\ Len(RunRows) = 2
    /\ Len(alerts) = scan.alerts0 + 1

\* the run printed [OK] and then [ERROR] for its k-th link: process_snapshot
\* raised, which only a Storage call can make it do
StorageFailedAt(k) == scan.log[k].out = <<"OK", "ERROR">>

\* C14: a storage failure is fatal for the run: once save_snapshot or
\* save_alert has failed on a link, the run handles no further link.
C14_StorageFailureStopsRun ==
    \A k \in 1..Len(scan.log) : StorageFailedAt(k) => k = Len(scan.log)

----------------------------------------------------------------------------
(* Properties of the extractor, read off the record of the adapter call    *)

Extracted == ret.op = "create_snapshot" /\ ret.fetched # None

Page == ret.fetched[1]

\* what each strategy finds on the page when taken alone: None, or the price

\* a Product whose offer carries a price that is set and reads as a number
JsonLdFinds ==
    IF /\ Page.jsonld.kind = "product"
       /\ Page.jsonld.offers # None
       /\ Page.jsonld.offers[1].price # None
       /\ Truthy(Page.jsonld.offers[1].price[1])
    THEN float(StripCommas(str(Page.jsonld.offers[1].price[1])))
    ELSE None

\* the content of the first element that carries itemprop="price"
MicroFinds ==
    IF Page.itemprop # <<>> THEN float(StripCommas(Page.itemprop[1])) ELSE None

\* the content of the first product:price:amount meta tag
OgFinds ==
    IF Page.og_amount # <<>> THEN float(StripCommas(Page.og_amount[1])) ELSE None

\* the first numeric substring of the k-th price-classed element
NumberIn(k) ==
    LET m == re_search(StripCommas(Page.classed[k]))
    IN  IF m = None THEN None ELSE float(m[1])

\* the first price-classed element whose number is strictly positive
HeurFinds ==
    LET hits == {k \in 1..Len(Page.classed) : NumberIn(k) # None /\ NumberIn(k)[1] > 0}
    IN  IF hits = {} THEN None
        ELSE NumberIn(CHOOSE k \in hits : \A h \in hits : k <= h)

\* the extractor returned price p with source tag src
Returned(p, src) ==
    /\ ret.result.ok
    /\ ret.result.data.price = p[1]
    /\ ret.result.data.source = src

Failed == ~ret.result.ok /\ ret.result.error = "ValueError"

\* what the three DOM strategies give when the structured data gives nothing
DomChain ==
    /\ MicroFinds # None => Returned(MicroFinds, "dom")
    /\ (MicroFinds = None /\ OgFinds # None) => Returned(OgFinds, "dom")
    /\ (MicroFinds = None /\ OgFinds = None /\ HeurFinds # None)
           => Returned(HeurFinds, "dom")
    /\ (MicroFinds = None /\ OgFinds = None /\ HeurFinds = None) => Failed

\* C16: the strategies are applied in the order structured data, itemprop
\* attribute, Open Graph, class-name heuristic: the price returned is that of
\* the first strategy in this order that finds one, it is tagged jsonld
\* exactly when the structured data finds it, and the extraction fails
\* exactly when no strategy finds a price.
C16_StrictPriority ==
    Extracted =>
        /\ JsonLdFinds # None => Returned(JsonLdFinds, "jsonld")
        /\ JsonLdFinds = None => DomChain
        /\ (ret.result.ok /\ ret.result.data.source = "jsonld") => JsonLdFinds # None
        /\ ~ret.result.ok <=>
               (JsonLdFinds = None /\ MicroFinds = None
                /\ OgFinds = None /\ HeurFinds = None)

\* all four strategies find a price, each a different one
C16_Witness ==
    /\ Extracted
    /\ JsonLdFinds = Some(100)
    /\ MicroFinds = Some(80)
    /\ OgFinds = Some(60)
    /\ HeurFinds = Some(5)
    /\ Returned(Some(100), "jsonld")

\* the exceptions a strategy can raise on a page: extruct rejects the
\* markup; float() rejects the text of the price
JsonLdRaises ==
    \/ Page.jsonld.kind = "raises"
    \/ /\ Page.jsonld.kind = "product"
       /\ Page.jsonld.offers # None
       /\ Page.jsonld.offers[1].price # None
       /\ Truthy(Page.jsonld.offers[1].price[1])
       /\ JsonLdFinds = None

MicroRaises == Page.itemprop # <<>> /\ MicroFinds = None

OgRaises == Page.og_amount # <<>> /\ OgFinds = None

\* C17: an exception inside one strategy counts as "no match" of that
\* strategy and the strategies below it are still tried; the extractor fails
\* (ValueError) only when all four have been tried without a price.
C17_ExceptionDoesNotAbortChain ==
    Extracted =>
        /\ JsonLdRaises => DomChain
        /\ (MicroRaises /\ JsonLdFinds = None) =>
               /\ OgFinds # None => Returned(OgFinds, "dom")
               /\ (OgFinds = None /\ HeurFinds # None) => Returned(HeurFinds, "dom")
               /\ (OgFinds = None /\ HeurFinds = None) => Failed
        /\ (OgRaises /\ JsonLdFinds = None /\ MicroFinds = None) =>
               /\ HeurFinds # None => Returned(HeurFinds, "dom")
               /\ HeurFinds = None => Failed
        /\ ~ret.result.ok =>
               /\ Failed
               /\ JsonLdFinds = None /\ MicroFinds = None
               /\ OgFinds = None /\ HeurFinds = None

\* the first three strategies each raise and the heuristic, after passing an
\* element without a positive number, finds the price
C17_Witness ==
    /\ Extracted
    /\ Page.jsonld.kind = "raises"
    /\ MicroRaises
    /\ OgRaises
    /\ Len(Page.classed) = 2
    /\ NumberIn(1) = Some(0)
    /\ HeurFinds = Some(60)
    /\ Returned(Some(60), "dom")

\* C18: every snapshot the adapter builds has price > 0, whichever strategy
\* found the price and whatever numeric text the page holds.
C18_PositivePrice ==
    (ret.op = "create_snapshot" /\ ret.result.ok) => ret.result.snapshot.price > 0

----------------------------------------------------------------------------
(* Properties of the signature, over the stored rows *)

SameFour(r, s) ==
    /\ r.url = s.url
    /\ r.price = s.price
    /\ r.currency = s.currency
    /\ r.list_price = s.list_price

\* C19: the signature is a function of (url, price, currency, list price or
\* empty): two stored snapshots that agree on the four fields carry the same
\* raw_signature, and the raw_signature of every stored snapshot is the hash
\* of the signature text formed from its own four fields.
C19_SignatureDeterministic ==
    /\ \A i, j \in 1..Len(snapshots) :
           SameFour(snapshots[i], snapshots[j])
               => snapshots[i].raw_signature = snapshots[j].raw_signature
    /\ \A i \in 1..Len(snapshots) :
           snapshots[i].raw_signature =
               sha1(sig_data(snapshots[i].url, snapshots[i].price,
                             snapshots[i].currency, snapshots[i].list_price))

\* one row built by the adapter and one built by a caller, at different
\* times, that agree on the four fields
C19_Witness ==
    /\ Len(snapshots) = 2
    /\ snapshots[1].parse_source = "jsonld"
    /\ snapshots[2].parse_source = "test"
    /\ snapshots[1].ts # snapshots[2].ts
    /\ SameFour(snapshots[1], snapshots[2])
    /\ snapshots[1].raw_signature = snapshots[2].raw_signature

\* the number of fields among price, currency, list_price on which r and s
\* differ
FieldsChanged(r, s) ==
    (IF r.price # s.price THEN 1 ELSE 0)
    + (IF r.currency # s.currency THEN 1 ELSE 0)
    + (IF r.list_price # s.list_price THEN 1 ELSE 0)

\* C20: two snapshots of one url that differ in exactly one of price,
\* currency and list_price (list_price absent against list_price 0
\* included) have different signatures.
C20_OneFieldChangesSignature ==
    \A i, j \in 1..Len(snapshots) :
        (/\ snapshots[i].url = snapshots[j].url
         /\ FieldsChanged(snapshots[i], snapshots[j]) = 1)
        => snapshots[i].raw_signature # snapshots[j].raw_signature

----------------------------------------------------------------------------
(* Properties of the statements of process_snapshot *)

InCall == ret.op = "steps"

\* C26: process_snapshot stores the observation, then evaluates the drop,
\* then stores the alert, then attempts the notification.  The table the
\* detector read holds the observation as its newest row; when the
\* notification is attempted the event is already the newest alert row; and
\* however the notification ends, the alert row stays and the event is
\* returned.
C26_StepOrder ==
    InCall =>
        /\ ret.pc \in {"detected", "alerted", "returned"} =>
               /\ ret.seen = Append(ret.snaps0, ret.snapshot)
               /\ ret.drop_event =
                      detect_drop(ret.seen, ret.alerts0, now, tz, ret.snapshot,
                                  ret.min_abs, ret.min_pct)
        /\ ret.pc \in {"called", "saved", "detected"} => alerts = ret.alerts0
        /\ ret.mail # "none" =>
               /\ ret.drop_event # None
               /\ ret.at_notify = Append(ret.alerts0, ret.drop_event[1])
               /\ alerts = ret.at_notify
               /\ ret.pc = "returned"
        /\ ret.pc = "returned" =>
               /\ ret.returned = ret.drop_event
               /\ alerts = IF ret.drop_event # None
                           THEN Append(ret.alerts0, ret.drop_event[1])
                           ELSE ret.alerts0

\* a call whose notification raised: the alert is the newest row and the
\* event is returned
C26_Witness ==
    /\ InCall
    /\ ret.pc = "returned"
    /\ ret.mail = "raised"
    /\ ret.returned # None
    /\ Len(alerts) = Len(ret.alerts0) + 1
    /\ alerts[Len(alerts)] = ret.returned[1]
    /\ snapshots[Len(snapshots)] = ret.snapshot

----------------------------------------------------------------------------
(* Properties of detect_drop on a previous price of zero or below *)

\* C27: when the previous price is <= 0 the percent drop is taken as 0 and
\* nothing is divided: an event is returned only if min_pct <= 0 and
\* previousPrice - currentPrice >= min_abs, and the event carries the
\* percent drop 0.
C27_NonPositivePrevious ==
    (Called /\ ret.last_price # None /\ Prev <= 0 /\ ret.event # None) =>
        /\ ret.min_pct <= 0
        /\ Prev - Cur >= ret.min_abs
        /\ ret.event[1].pct_change = [num |-> 0, den |-> 1]

\* previous price 0, current price -5, thresholds {5, 0}: an event
C27_Witness ==
    /\ Called
    /\ ret.last_price = Some(0)
    /\ Cur = -5
    /\ ret.min_abs = 5
    /\ ret.min_pct = 0
    /\ ret.event # None
    /\ ret.event[1].old_price = 0

\* previous price 0, a drop of 5 and min_pct above 0: no event
C27_WitnessNone ==
    /\ Called
    /\ ret.last_price = Some(0)
    /\ Cur = -5
    /\ ret.min_abs = 5
    /\ ret.min_pct = 8
    /\ ret.event = None

----------------------------------------------------------------------------
(* Properties of detect_drop called on its own *)

Detected == ret.op = "detect_drop"

\* C28: detect_drop leaves the snapshots table and the alerts table as they
\* were (an event it returns is not in the alert log), and a second call in
\* the same store state with the same arguments at the same time returns
\* what the first returned.
C28_DetectDropStateless ==
    Detected =>
        /\ snapshots = ret.snaps0
        /\ alerts = ret.alerts0
        /\ ret.calls = 2 => ret.event = ret.first

\* detect_drop returned an event twice and the alert log is still empty
C28_Witness ==
    /\ Detected
    /\ ret.calls = 2
    /\ ret.first # None
    /\ ret.event = ret.first
    /\ alerts = <<>>
    /\ Len(snapshots) = 2

----------------------------------------------------------------------------
(* Properties of a scan that finds the prices of the scan before it *)

\* in the second run the link has reported the price it reported in the
\* first
SamePriceAsBefore(link) ==
    \E i \in 1..scan.snaps0 :
        \E j \in (scan.snaps0 + 1)..Len(snapshots) :
            /\ snapshots[i].url = link
            /\ snapshots[j].url = link
            /\ snapshots[j].price = snapshots[i].price

\* every link of the product that has an extractor has done so
NoPriceChanged(pid) ==
    \A k \in 1..Len(Links(pid)) :
        ~AdapterSkips(Links(pid)[k]) => SamePriceAsBefore(Links(pid)[k])

\* C29: a scan in which every URL of a product reports the price it
\* reported in the previous scan adds no alert for the product (thresholds
\* positive, retailers' prices differing or not).
C29_NoEventWithoutChange ==
    (scan.run = 2 /\ scan.pi > 0) =>
        \A pid \in ProductIds : NoPriceChanged(pid) => RunAlerts(pid) = {}

----------------------------------------------------------------------------
(* Properties of the previous price under caller-set timestamps *)

\* the rows of the product of the last call, in the order they were stored
CallRows == ProductRows(snapshots, ret.snapshot.product_id)

\* the previous price is that of the row the preceding call for the product
\* stored, and there is none when the call is the product's first
PreviousIsPrecedingCall ==
    IF Len(CallRows) < 2 THEN ret.last_price = None
    ELSE ret.last_price = Some(CallRows[Len(CallRows) - 1].price)

\* the stamps of the product's rows never decrease from a call to the next
StampsNeverDecrease ==
    \A i \in 1..(Len(CallRows) - 1) : CallRows[i].ts <= CallRows[i + 1].ts

----------------------------------------------------------------------------
(* Properties of the guard query, asked in the present state of the store *)

\* hours between the recording of alert row i and now
RecordedHoursAgo(i) == now - (alerts[i].ts - tz)

\* C25: check_recent_alert(product, price) is true exactly when the alert
\* log holds an alert of that product with that new_price that was recorded
\* within the 12 hours before the call.
C25_RecentAlertExact ==
    \A pid \in ProductIds, price \in PagePrices :
        check_recent_alert(alerts, pid, price, now)
            <=> \E i \in 1..Len(alerts) :
                    /\ alerts[i].product_id = pid
                    /\ alerts[i].new_price = price
                    /\ RecordedHoursAgo(i) >= 0
                    /\ RecordedHoursAgo(i) < hours

----------------------------------------------------------------------------
(* Properties of the fetches of a run *)

LogLinks == [k \in 1..Len(scan.log) |-> scan.log[k].link]

\* no link was attempted twice; a link whose fetch failed was reported once
\* and has no row; a finished run has attempted all the links of the config
AttemptedOnce ==
    scan.pi > 0 =>
        /\ \A j, k \in 1..Len(scan.log) : LogLinks[j] = LogLinks[k] => j = k
        /\ \A k \in 1..Len(scan.log) :
               scan.log[k].out = <<"ERROR">> =>
                   \A i \in 1..Len(RunRows) : RunRows[i].url # LogLinks[k]
        /\ ~scan.active => LogLinks = LinksThrough(Len(Products))

\* C24: there are no retries.  In a run every configured URL is attempted
\* at most once, a failed fetch is reported and its URL skipped, and every
\* run that starts ends, having attempted every URL of every product
\* exactly once.
C24_NoRetries == []AttemptedOnce /\ (scan.active ~> ~scan.active)

\* a finished run in which the first fetch failed and the other links were
\* each attempted once
C24_Witness ==
    /\ scan.run = 1
    /\ ~scan.active
    /\ LogLinks = LinksThrough(Len(Products))
    /\ scan.log[1].out = <<"ERROR">>
    /\ scan.log[2].out = <<"OK">>
    /\ scan.log[3].out = <<"OK">>
    /\ scan.log[4].out = <<"WARN">>
    /\ [i \in 1..Len(RunRows) |-> RunRows[i].url] = <<LogLinks[2], LogLinks[3]>>

----------------------------------------------------------------------------
(* Properties of the currency the adapter stores *)

Adapted == ret.op = "create_snapshot" /\ ret.result.ok

\* C21: when the page yields no currency, the snapshot carries the product's
\* preferred currency, or CAD when the product names none, and its price is
\* the extracted price, unchanged.
C21_FallbackCurrency ==
    (Adapted /\ ret.result.data.currency = None) =>
        /\ ret.result.snapshot.currency =
               (IF ProductCurrency(ret.pid) # None
                THEN ProductCurrency(ret.pid)[1]
                ELSE "CAD")
        /\ ret.result.snapshot.price = ret.result.data.price

\* C22: for every detected currency code other than CAD the snapshot carries
\* the currency CAD and the extracted price multiplied by the conversion
\* factor.
C22_DetectedForcedToDefault ==
    (Adapted /\ ret.result.data.currency # None
             /\ ret.result.data.currency # Some("CAD")) =>
        /\ ret.result.snapshot.currency = "CAD"
        /\ ret.result.snapshot.price = TimesFactor(ret.result.data.price)

----------------------------------------------------------------------------
(* Properties of the thresholds a scan uses *)

\* the entry of the file gives no value for the key
OmitsMinAbs ==
    \/ ~ret.item.has_thresholds
    \/ ret.item.thresholds = None
    \/ ret.item.thresholds[1].min_abs = None

OmitsMinPct ==
    \/ ~ret.item.has_thresholds
    \/ ret.item.thresholds = None
    \/ ret.item.thresholds[1].min_pct = None

\* C23: for a product whose configuration omits the thresholds, or one of
\* the two keys, the value used for an omitted key is min_abs = 20 and
\* min_pct = 0.08, in cli.cmd_scan and in scan.scan_product.
C23_DefaultThresholds ==
    ret.op \in {"cmd_scan", "scan_product"} =>
        /\ OmitsMinAbs => ret.used[1] = default_min_abs
        /\ OmitsMinPct => ret.used[2] = default_min_pct

----------------------------------------------------------------------------
(* Properties of concurrent evaluations *)

\* C4: check-then-append is serialized per product: two evaluations of one
\* product with the same resulting price never both insert, so the alert log
\* never holds two rows of one product and price recorded within the window
\* of each other.
C4_NoDuplicateAlertInWindow ==
    \A i, j \in 1..Len(alerts) :
        (/\ i < j
         /\ alerts[i].product_id = alerts[j].product_id
         /\ alerts[i].new_price = alerts[j].new_price)
        => alerts[j].ts - alerts[i].ts >= hours

====
